---- MODULE Spec2Model ----
(***************************************************************************)
(* Lifecycle engine of phi.k8s.resource.base.K8sResource: read, is_active, *)
(* create, update and delete on one resource instance, against one remote  *)
(* object of the cluster.                                                  *)
(*                                                                         *)
(* Python values are records [kind, v] so that None, True/False, a live    *)
(* object and "the call raised" can be compared with one another.          *)
(* Every handler is one action: the whole method body, the probe, the      *)
(* kind-specific primitive, the manifest-file action and the post hook     *)
(* included.  The calls a handler makes are recorded in the call's log.    *)
(***************************************************************************)
EXTENDS Integers, Sequences, FiniteSets, TLC

\* Number of distinguishable live objects the cluster can hold for the resource.
MaxObj == 2

None == [kind |-> "None", v |-> 0]
PyTrue == [kind |-> "bool", v |-> 1]
PyFalse == [kind |-> "bool", v |-> 0]
PyBool(b) == IF b THEN PyTrue ELSE PyFalse
LiveObject(n) == [kind |-> "object", v |-> n]
\* the call did not return: an exception left it
Raised == [kind |-> "raised", v |-> 0]

LiveObjects == {LiveObject(n) : n \in 1..MaxObj}

\* Python truthiness of the values above (`if self.resource_created:`)
truthy(x) == x.kind = "object" \/ (x.kind = "bool" /\ x.v = 1)

\* What a transport call inside a kind-specific primitive can do.
ReadOutcomes == {"ok", "raise"}
Outcomes == {"ok", "fail", "raise"}

\* Which kind-specific primitives a specialization overrides: none (the base
\* class itself), all of them, or only the read primitive.
Specializations == {{}, {"_read"}, {"_read", "_create", "_update", "_delete"}}

VARIABLES
    skip_read, skip_create, skip_update, skip_delete, use_cache, save_output,
    supplied,           \* the primitives the specialization overrides
    remote,             \* the live object on the cluster, or None
    active_resource,    \* cached result of the last probe
    resource_created, resource_updated, resource_deleted,
    output_file,        \* TRUE iff the manifest file exists
    last,               \* record of the most recent call on the instance
    tick,               \* flips at every call on the instance
    field_value,        \* value of each declared field; 0 is the field's default
    fields_for_k8s_manifest,    \* the names the specialization lists
    k8s_manifest,       \* what get_k8s_manifest_dict returned last
    manifest_done       \* TRUE once get_k8s_manifest_dict was called

config == <<skip_read, skip_create, skip_update, skip_delete, use_cache, save_output, supplied>>
vars == <<skip_read, skip_create, skip_update, skip_delete, use_cache, save_output,
          supplied, remote, active_resource, resource_created, resource_updated,
          resource_deleted, output_file, last, tick,
          field_value, fields_for_k8s_manifest, k8s_manifest, manifest_done>>
lifecycle == <<remote, active_resource, resource_created, resource_updated,
               resource_deleted, output_file, last, tick>>
manifest == <<field_value, fields_for_k8s_manifest, k8s_manifest, manifest_done>>

\* One entry of a call's log: a method the handler called and what it returned.
Ev(call, result) == [call |-> call, result |-> result]

NoCall == [op |-> "none", ret |-> None, log |-> <<>>, flag |-> None]

\* What a handler leaves behind: its return value, the calls it made, and the
\* instance and cluster state after it.
Outcome(ret, log, ar, flag, rem, file) ==
    [ret |-> ret, log |-> log, active_resource |-> ar, flag |-> flag,
     remote |-> rem, output_file |-> file]

----------------------------------------------------------------------------
\* Kind-specific primitives.  The base defaults log an error and return True.

_read(out) ==
    IF "_read" \notin supplied THEN PyTrue
    ELSE IF out = "raise" THEN Raised
    ELSE remote

_create(out) ==
    IF "_create" \notin supplied THEN PyTrue
    ELSE IF out = "raise" THEN Raised
    ELSE PyBool(out = "ok")

_update(out) ==
    IF "_update" \notin supplied THEN PyTrue
    ELSE IF out = "raise" THEN Raised
    ELSE PyBool(out = "ok")

_delete(out) ==
    IF "_delete" \notin supplied THEN PyTrue
    ELSE IF out = "raise" THEN Raised
    ELSE PyBool(out = "ok")

\* The cluster after a primitive: a supplied primitive that succeeds takes
\* effect.  A create leaves the first version of the object, an update the
\* version after the one it found, a delete nothing.
next_version(x) == IF x.kind = "object" THEN LiveObject((x.v % MaxObj) + 1) ELSE LiveObject(1)

remote_after(prim, out) ==
    IF prim \in supplied /\ out = "ok"
    THEN CASE prim = "_create" -> LiveObject(1)
           [] prim = "_update" -> next_version(remote)
           [] prim = "_delete" -> None
    ELSE remote

\* Post hooks: overridable, return a bool.
post_create(h) == PyBool(h)
post_update(h) == PyBool(h)
post_delete(h) == PyBool(h)

\* Manifest file of the resource.
save_output_file == TRUE
delete_output_file == FALSE

----------------------------------------------------------------------------
\* read: step 1, the cache test
\* the cache test without its use_cache conjunct
read_uses_cache_always == active_resource # None

\* the cache test made to depend on skip_read
read_uses_cache_unless_skip == use_cache /\ active_resource # None /\ ~skip_read

read_uses_cache == use_cache /\ active_resource # None

\* read without its skip_read step
read_ignores_skip(ro) ==
    IF read_uses_cache
    THEN Outcome(active_resource, <<>>, active_resource, None, remote, output_file)
    ELSE LET r == _read(ro)
         IN Outcome(r, <<Ev("_read", r)>>, active_resource, None, remote, output_file)

read(ro) ==
    IF read_uses_cache
    THEN Outcome(active_resource, <<>>, active_resource, None, remote, output_file)
    ELSE IF skip_read
    THEN Outcome(PyTrue, <<>>, active_resource, None, remote, output_file)
    ELSE LET r == _read(ro)
         IN Outcome(r, <<Ev("_read", r)>>, active_resource, None, remote, output_file)

\* is_active answering from the cache, as read does
is_active_cached(ro) ==
    IF use_cache /\ active_resource # None
    THEN Outcome(PyTrue, <<>>, active_resource, None, remote, output_file)
    ELSE LET r == _read(ro)
         IN IF r = Raised
            THEN Outcome(Raised, <<Ev("_read", r)>>, active_resource, None, remote, output_file)
            ELSE Outcome(PyBool(r # None), <<Ev("_read", r)>>, r, None, remote, output_file)

is_active(ro) ==
    LET r == _read(ro)
    IN IF r = Raised
       THEN Outcome(Raised, <<Ev("_read", r)>>, active_resource, None, remote, output_file)
       ELSE Outcome(PyBool(r # None), <<Ev("_read", r)>>, r, None, remote, output_file)

\* `if self.save_output: self.save_output_file()` in create and update
saved_log(log) == IF save_output THEN log \o <<Ev("save_output_file", None)>> ELSE log

\* the file written whatever save_output says
saved_file_always == save_output_file

saved_file == IF save_output THEN save_output_file ELSE output_file

\* `if self.save_output: self.delete_output_file()` in delete
removed_log(log) == IF save_output THEN log \o <<Ev("delete_output_file", None)>> ELSE log

removed_file == IF save_output THEN delete_output_file ELSE output_file

\* `self.use_cache and self.is_active(client)`: the probe is made only under
\* use_cache; without it create goes on from the state as it is.
not_probed == Outcome(PyFalse, <<>>, active_resource, None, remote, output_file)

\* the probe made whatever use_cache says
create_probe_always(ro) == is_active(ro)

create_probe(ro) == IF use_cache THEN is_active(ro) ELSE not_probed

create_skipped ==
    Outcome(PyTrue, <<>>, active_resource, resource_created, remote, output_file)

\* the test with use_cache inverted
create_exists_test_inverted(p) == ~use_cache /\ truthy(p.ret)

create_exists_test(p) == use_cache /\ truthy(p.ret)

\* "already exists" without `self.resource_created = True`
create_already_exists_unmarked(p) ==
    Outcome(PyTrue, p.log, p.active_resource, resource_created, remote, output_file)

create_already_exists(p) ==
    Outcome(PyTrue, p.log, p.active_resource, PyTrue, remote, output_file)

\* the failure branch returning True instead of self.resource_created
create_failed_returns_true(p, c) ==
    Outcome(PyTrue, p.log \o <<Ev("_create", c)>>, p.active_resource, c, remote, output_file)

create_failed(p, c) ==
    Outcome(c, p.log \o <<Ev("_create", c)>>, p.active_resource, c, remote, output_file)

\* step after a successful primitive: the file action, then the post hook,
\* whose result is returned
create_succeeded(p, c, co, h) ==
    LET log2 == saved_log(p.log \o <<Ev("_create", c)>>)
        res == post_create(h)
    IN Outcome(res, log2 \o <<Ev("post_create", res)>>, p.active_resource, c,
               remote_after("_create", co), saved_file)

create(ro, co, h) ==
    IF skip_create
    THEN create_skipped
    ELSE LET p == create_probe(ro)
         IN IF p.ret = Raised
            THEN Outcome(Raised, p.log, p.active_resource, resource_created, remote, output_file)
            ELSE IF create_exists_test(p)
            THEN create_already_exists(p)
            ELSE LET c == _create(co)
                     log1 == p.log \o <<Ev("_create", c)>>
                 IN IF c = Raised
                    THEN Outcome(Raised, log1, p.active_resource, resource_created,
                                 remote, output_file)
                    ELSE IF truthy(c)
                    THEN create_succeeded(p, c, co, h)
                    ELSE create_failed(p, c)

\* a skipped update that still sets its result flag
update_skipped_marked ==
    Outcome(PyTrue, <<>>, active_resource, PyTrue, remote, output_file)

\* a failed update primitive tried a second time
update_failed_retries(p, u) ==
    Outcome(u, p.log \o <<Ev("_update", u), Ev("_update", u)>>, p.active_resource, u,
            remote, output_file)

update_failed(p, u) ==
    Outcome(u, p.log \o <<Ev("_update", u)>>, p.active_resource, u, remote, output_file)

update_skipped ==
    Outcome(PyTrue, <<>>, active_resource, resource_updated, remote, output_file)

update_not_active(p) ==
    Outcome(PyTrue, p.log, p.active_resource, resource_updated, remote, output_file)

\* step after a successful primitive: the file action, then the post hook,
\* whose result is returned
update_succeeded(p, u, uo, h) ==
    LET log2 == saved_log(p.log \o <<Ev("_update", u)>>)
        res == post_update(h)
    IN Outcome(res, log2 \o <<Ev("post_update", res)>>, p.active_resource, u,
               remote_after("_update", uo), saved_file)

update(ro, uo, h) ==
    IF skip_update
    THEN update_skipped
    ELSE LET p == is_active(ro)
         IN IF p.ret = Raised
            THEN Outcome(Raised, p.log, p.active_resource, resource_updated, remote, output_file)
            ELSE IF ~truthy(p.ret)
            THEN update_not_active(p)
            ELSE LET u == _update(uo)
                     log1 == p.log \o <<Ev("_update", u)>>
                 IN IF u = Raised
                    THEN Outcome(Raised, log1, p.active_resource, resource_updated,
                                 remote, output_file)
                    ELSE IF truthy(u)
                    THEN update_succeeded(p, u, uo, h)
                    ELSE update_failed(p, u)

delete_skipped ==
    Outcome(PyTrue, <<>>, active_resource, resource_deleted, remote, output_file)

\* absence treated as a failed delete
delete_not_active_fails(p) ==
    Outcome(PyFalse, p.log, p.active_resource, PyFalse, remote, output_file)

delete_not_active(p) ==
    Outcome(PyTrue, p.log, p.active_resource, resource_deleted, remote, output_file)

\* the step returning self.resource_deleted instead of the hook's result
delete_succeeded_returns_flag(p, d, do, h) ==
    LET log2 == removed_log(p.log \o <<Ev("_delete", d)>>)
        res == post_delete(h)
    IN Outcome(d, log2 \o <<Ev("post_delete", res)>>, p.active_resource, d,
               remote_after("_delete", do), removed_file)

\* step after a successful primitive: the file action, then the post hook,
\* whose result is returned
delete_succeeded(p, d, do, h) ==
    LET log2 == removed_log(p.log \o <<Ev("_delete", d)>>)
        res == post_delete(h)
    IN Outcome(res, log2 \o <<Ev("post_delete", res)>>, p.active_resource, d,
               remote_after("_delete", do), removed_file)

delete(ro, do, h) ==
    IF skip_delete
    THEN delete_skipped
    ELSE LET p == is_active(ro)
         IN IF p.ret = Raised
            THEN Outcome(Raised, p.log, p.active_resource, resource_deleted, remote, output_file)
            ELSE IF ~truthy(p.ret)
            THEN delete_not_active(p)
            ELSE LET d == _delete(do)
                     log1 == p.log \o <<Ev("_delete", d)>>
                 IN IF d = Raised
                    THEN Outcome(Raised, log1, p.active_resource, resource_deleted,
                                 remote, output_file)
                    ELSE IF truthy(d)
                    THEN delete_succeeded(p, d, do, h)
                    ELSE Outcome(d, log1, p.active_resource, d, remote, output_file)

----------------------------------------------------------------------------
\* Manifest projection.

\* Longest fields_for_k8s_manifest list a specialization declares here.
MaxManifestFields == 2

\* Declared fields, in declaration order: the three identity fields, one more
\* field of the base class, and two fields of a specialization.
FieldNames ==
    <<"api_version", "kind", "metadata", "pretty", "replicas", "service_account_name">>

\* Fields declared without a default (Field(...), or a bare annotation).
RequiredFields == {"api_version", "kind", "metadata"}

\* The wire name of a field: its alias when it declares one.
alias(f) ==
    CASE f = "api_version" -> "apiVersion"
      [] f = "service_account_name" -> "serviceAccountName"
      [] OTHER -> f

fields_for_k8s_manifest_base == <<"api_version", "apiVersion", "kind", "metadata">>

\* Names a specialization may put in fields_for_k8s_manifest.
ManifestNames == {"replicas", "service_account_name", "serviceAccountName", "kind"}

RECURSIVE SeqsUpTo(_, _)
SeqsUpTo(S, n) ==
    IF n = 0 THEN {<<>>}
    ELSE LET shorter == SeqsUpTo(S, n - 1)
         IN shorter \cup {Append(q, x) : q \in shorter, x \in S}

Range(q) == {q[i] : i \in 1..Len(q)}

\* model_dump(by_alias=True) without exclude_defaults: every field is dumped
model_dump_all ==
    [k \in {alias(f) : f \in Range(FieldNames)} |->
        field_value[CHOOSE f \in Range(FieldNames) : alias(f) = k]]

\* self.model_dump(exclude_defaults=True, by_alias=True): a mapping from the
\* wire name of every field that does not hold its default to its value
model_dump ==
    [k \in {alias(f) : f \in {g \in Range(FieldNames) :
                                g \in RequiredFields \/ field_value[g] # 0}} |->
        field_value[CHOOSE f \in Range(FieldNames) : alias(f) = k]]

\* d[k] = v on a dict kept as the sequence of its items in insertion order
dict_set(d, k, v) ==
    IF \E i \in 1..Len(d) : d[i].key = k
    THEN [i \in 1..Len(d) |-> IF d[i].key = k THEN [key |-> k, value |-> v] ELSE d[i]]
    ELSE Append(d, [key |-> k, value |-> v])

\* chain(self.fields_for_k8s_manifest_base, self.fields_for_k8s_manifest)
chain(a, b) == a \o b

RECURSIVE manifest_loop(_, _, _)
manifest_loop(names, all_attributes, acc) ==
    IF names = <<>> THEN acc
    ELSE LET attr_name == Head(names)
         IN manifest_loop(Tail(names), all_attributes,
                          IF attr_name \in DOMAIN all_attributes
                          THEN dict_set(acc, attr_name, all_attributes[attr_name])
                          ELSE acc)

get_k8s_manifest_dict ==
    manifest_loop(chain(fields_for_k8s_manifest_base, fields_for_k8s_manifest),
                  model_dump, <<>>)

----------------------------------------------------------------------------
Call(op, r) == [op |-> op, ret |-> r.ret, log |-> r.log, flag |-> r.flag]

Init ==
    /\ skip_read \in BOOLEAN
    /\ skip_create \in BOOLEAN
    /\ skip_update \in BOOLEAN
    /\ skip_delete \in BOOLEAN
    /\ use_cache \in BOOLEAN
    /\ save_output \in BOOLEAN
    /\ supplied \in Specializations
    /\ remote \in {None} \cup LiveObjects
    /\ active_resource = None
    /\ resource_created = None
    /\ resource_updated = None
    /\ resource_deleted = None
    /\ output_file = FALSE
    /\ last = NoCall
    /\ tick = FALSE
    /\ field_value = [f \in Range(FieldNames) |-> IF f \in RequiredFields THEN 1 ELSE 0]
    /\ fields_for_k8s_manifest = <<>>
    /\ k8s_manifest = <<>>
    /\ manifest_done = FALSE

\* a read that keeps what it read in active_resource
Read_caches ==
    \E ro \in ReadOutcomes :
        LET r == read(ro)
        IN /\ last' = Call("read", r)
           /\ tick' = ~tick
           /\ active_resource' = IF r.log # <<>> /\ r.ret # Raised
                                 THEN r.ret ELSE active_resource
           /\ UNCHANGED <<config, manifest, remote, resource_created,
                          resource_updated, resource_deleted, output_file>>

Read ==
    \E ro \in ReadOutcomes :
        LET r == read(ro)
        IN /\ last' = Call("read", r)
           /\ tick' = ~tick
           /\ UNCHANGED <<config, manifest, remote, active_resource, resource_created,
                          resource_updated, resource_deleted, output_file>>

IsActive ==
    \E ro \in ReadOutcomes :
        LET r == is_active(ro)
        IN /\ active_resource' = r.active_resource
           /\ last' = Call("is_active", r)
           /\ tick' = ~tick
           /\ UNCHANGED <<config, manifest, remote, resource_created, resource_updated,
                          resource_deleted, output_file>>

\* a create that also resets the flag of delete
Create_clears_deleted ==
    \E ro \in ReadOutcomes, co \in Outcomes, h \in BOOLEAN :
        LET r == create(ro, co, h)
        IN /\ active_resource' = r.active_resource
           /\ resource_created' = r.flag
           /\ resource_deleted' = IF truthy(r.flag) THEN PyFalse ELSE resource_deleted
           /\ remote' = r.remote
           /\ output_file' = r.output_file
           /\ last' = Call("create", r)
           /\ tick' = ~tick
           /\ UNCHANGED <<config, manifest, resource_updated>>

Create ==
    \E ro \in ReadOutcomes, co \in Outcomes, h \in BOOLEAN :
        LET r == create(ro, co, h)
        IN /\ active_resource' = r.active_resource
           /\ resource_created' = r.flag
           /\ remote' = r.remote
           /\ output_file' = r.output_file
           /\ last' = Call("create", r)
           /\ tick' = ~tick
           /\ UNCHANGED <<config, manifest, resource_updated, resource_deleted>>

Update ==
    \E ro \in ReadOutcomes, uo \in Outcomes, h \in BOOLEAN :
        LET r == update(ro, uo, h)
        IN /\ active_resource' = r.active_resource
           /\ resource_updated' = r.flag
           /\ remote' = r.remote
           /\ output_file' = r.output_file
           /\ last' = Call("update", r)
           /\ tick' = ~tick
           /\ UNCHANGED <<config, manifest, resource_created, resource_deleted>>

Delete ==
    \E ro \in ReadOutcomes, do \in Outcomes, h \in BOOLEAN :
        LET r == delete(ro, do, h)
        IN /\ active_resource' = r.active_resource
           /\ resource_deleted' = r.flag
           /\ remote' = r.remote
           /\ output_file' = r.output_file
           /\ last' = Call("delete", r)
           /\ tick' = ~tick
           /\ UNCHANGED <<config, manifest, resource_created, resource_updated>>

\* Another client of the cluster creates, replaces or removes the object.
RemoteChange ==
    /\ remote' \in ({None} \cup LiveObjects) \ {remote}
    /\ UNCHANGED <<config, manifest, active_resource, resource_created, resource_updated,
                   resource_deleted, output_file, last, tick>>

Next == Read \/ IsActive \/ Create \/ Update \/ Delete \/ RemoteChange

Spec == Init /\ [][Next]_vars

\* The projection on resources of every declared shape, between lifecycle calls
\* of an instance with the default flags.
InitManifest ==
    /\ skip_read = FALSE
    /\ skip_create = FALSE
    /\ skip_update = FALSE
    /\ skip_delete = FALSE
    /\ use_cache = TRUE
    /\ save_output = FALSE
    /\ supplied = {"_read", "_create", "_update", "_delete"}
    /\ remote \in {None} \cup LiveObjects
    /\ active_resource = None
    /\ resource_created = None
    /\ resource_updated = None
    /\ resource_deleted = None
    /\ output_file = FALSE
    /\ last = NoCall
    /\ tick = FALSE
    /\ field_value \in [Range(FieldNames) -> 0..1]
    /\ \A f \in RequiredFields : field_value[f] = 1
    /\ fields_for_k8s_manifest \in SeqsUpTo(ManifestNames, MaxManifestFields)
    /\ k8s_manifest = <<>>
    /\ manifest_done = FALSE

GetManifest ==
    /\ k8s_manifest' = get_k8s_manifest_dict
    /\ manifest_done' = TRUE
    /\ UNCHANGED <<config, lifecycle, field_value, fields_for_k8s_manifest>>

NextManifest == GetManifest \/ IsActive \/ Create

SpecManifest == InitManifest /\ [][NextManifest]_vars

----------------------------------------------------------------------------
\* Reading a call record.

Count(c, name) == Cardinality({i \in 1..Len(c.log) : c.log[i].call = name})
Called(c, name) == \E i \in 1..Len(c.log) : c.log[i].call = name
\* what the first call of that name in the record returned
NotCalled == [kind |-> "not called", v |-> 0]
Result(c, name) ==
    IF Called(c, name)
    THEN c.log[CHOOSE i \in 1..Len(c.log) : c.log[i].call = name].result
    ELSE NotCalled
Returned(c) == c.ret # Raised
\* the step is a call on the instance, not a change on the cluster
IsCall == tick' # tick

Hooks == {"post_create", "post_update", "post_delete"}
FileActions == {"save_output_file", "delete_output_file"}
Primitives == {"_create", "_update", "_delete"}

\* C1 as stated: with use_cache and without skip_create, two consecutive
\* create calls (that return, on a kind that supplies its primitives) leave
\* resource_created true after each call and invoke _create at most once
\* over both.
C1_IdempotentCreate_AsStated ==
    [][(IsCall /\ last.op = "create" /\ last'.op = "create"
        /\ use_cache /\ ~skip_create /\ Returned(last) /\ Returned(last')
        /\ {"_read", "_create"} \subseteq supplied)
       => /\ resource_created = PyTrue
          /\ resource_created' = PyTrue
          /\ Count(last, "_create") + Count(last', "_create") <= 1]_vars

\* C1 amended: the same, for two consecutive create calls in which the
\* create primitive, if the first call invokes it, reports success and the
\* probe of the second call finds the resource present.
C1_IdempotentCreate ==
    [][(IsCall /\ last.op = "create" /\ last'.op = "create"
        /\ use_cache /\ ~skip_create /\ Returned(last) /\ Returned(last')
        /\ (Called(last, "_create") => Result(last, "_create") = PyTrue)
        /\ Result(last', "_read") \notin {None, NotCalled})
       => /\ resource_created = PyTrue
          /\ resource_created' = PyTrue
          /\ Count(last, "_create") + Count(last', "_create") <= 1]_vars

\* a create that found the resource it could have created before: the cluster
\* holds the object, the probe returned it, and the flag is set
C1_Witness ==
    /\ last.op = "create" /\ use_cache /\ ~skip_create
    /\ "_create" \in supplied
    /\ last.log = <<Ev("_read", remote)>> /\ remote \in LiveObjects
    /\ resource_created = PyTrue

\* C2: an update or delete (skip flag false) whose probe returns absent
\* returns True without invoking _update/_delete, the post hook or the
\* manifest-file action.
C2_NoOpOnAbsence ==
    \A op \in {"update", "delete"} :
        (/\ last.op = op
         /\ ~(IF op = "update" THEN skip_update ELSE skip_delete)
         /\ Called(last, "_read") /\ Result(last, "_read") = None)
        => /\ last.ret = PyTrue
           /\ \A i \in 1..Len(last.log) :
                 last.log[i].call \notin Primitives \cup Hooks \cup FileActions

C2_Witness ==
    /\ last.op = "delete" /\ ~skip_delete /\ save_output
    /\ last.log = <<Ev("_read", None)>> /\ last.ret = PyTrue
    /\ resource_created = PyTrue

\* C3: a create, update or delete whose skip flag is set returns True, calls
\* nothing (no probe, no primitive) and leaves active_resource and the three
\* result flags as they were.
SkipFlag(op) ==
    CASE op = "create" -> skip_create
      [] op = "update" -> skip_update
      [] op = "delete" -> skip_delete
      [] OTHER -> FALSE

C3_SkipShortCircuit ==
    [][(IsCall /\ SkipFlag(last'.op))
       => /\ last'.ret = PyTrue
          /\ last'.log = <<>>
          /\ UNCHANGED <<active_resource, resource_created, resource_updated,
                         resource_deleted>>]_vars

\* a skipped update on a resource that is there and was probed before
C3_Witness ==
    /\ last.op = "update" /\ skip_update /\ last.ret = PyTrue
    /\ remote \in LiveObjects /\ active_resource \in LiveObjects
    /\ resource_updated = None

\* C4 as stated: with use_cache false, each of two consecutive read calls
\* invokes the read primitive.
C4_CacheBypass_AsStated ==
    [][(IsCall /\ last.op = "read" /\ last'.op = "read" /\ ~use_cache)
       => /\ Count(last, "_read") = 1
          /\ Count(last', "_read") = 1]_vars

\* C4 amended: with use_cache false and skip_read false, each of two
\* consecutive read calls invokes the read primitive, whatever the first
\* returned and whatever active_resource holds.
C4_CacheBypass ==
    [][(IsCall /\ last.op = "read" /\ last'.op = "read" /\ ~use_cache /\ ~skip_read)
       => /\ Count(last, "_read") = 1
          /\ Count(last', "_read") = 1]_vars

\* a read that probed although a live object is cached
C4_Witness ==
    /\ last.op = "read" /\ ~use_cache /\ ~skip_read
    /\ active_resource \in LiveObjects
    /\ last.log = <<Ev("_read", last.ret)>> /\ last.ret \in LiveObjects

\* C5: with use_cache and a populated active_resource, read returns
\* active_resource and does not invoke the read primitive.
C5_CacheHit ==
    (last.op = "read" /\ use_cache /\ active_resource # None)
    => /\ last.ret = active_resource
       /\ last.log = <<>>

\* the cache answers although skip_read is set and the cluster has moved on
C5_Witness ==
    /\ last.op = "read" /\ use_cache /\ skip_read
    /\ active_resource \in LiveObjects /\ remote # active_resource
    /\ last.ret = active_resource

\* C6: a create whose create primitive reports failure returns False, leaves
\* resource_created False, does not invoke post_create and writes no file.
C6_CreateFailure ==
    (last.op = "create" /\ Called(last, "_create") /\ Result(last, "_create") = PyFalse)
    => /\ last.ret = PyFalse
       /\ resource_created = PyFalse
       /\ ~Called(last, "post_create")
       /\ ~Called(last, "save_output_file")

C6_Witness ==
    /\ last.op = "create" /\ save_output /\ use_cache
    /\ last.log = <<Ev("_read", None), Ev("_create", PyFalse)>>
    /\ last.ret = PyFalse /\ ~output_file

\* C7: when the specialization supplies no primitive, a create, update or
\* delete that reaches the base default primitive does not return True and
\* does not set its result flag to True.
C7_MissingPrimitiveFails ==
    /\ (last.op = "create" /\ Called(last, "_create") /\ "_create" \notin supplied)
       => (last.ret # PyTrue /\ resource_created # PyTrue)
    /\ (last.op = "update" /\ Called(last, "_update") /\ "_update" \notin supplied)
       => (last.ret # PyTrue /\ resource_updated # PyTrue)
    /\ (last.op = "delete" /\ Called(last, "_delete") /\ "_delete" \notin supplied)
       => (last.ret # PyTrue /\ resource_deleted # PyTrue)

\* C8: every is_active call invokes the read primitive exactly once, whatever
\* use_cache, skip_read and the cache hold; when the probe returns, its result
\* replaces active_resource and the call returns True iff it is not None.
C8_IsActiveProbes ==
    [][(IsCall /\ last'.op = "is_active")
       => /\ Count(last', "_read") = 1
          /\ Len(last'.log) = 1
          /\ Returned(last')
             => /\ active_resource' = Result(last', "_read")
                /\ last'.ret = PyBool(active_resource' # None)]_vars

\* a cached live object overwritten with absent, under use_cache and skip_read
C8_Witness ==
    /\ last.op = "is_active" /\ use_cache /\ skip_read
    /\ resource_updated = PyTrue
    /\ active_resource = None /\ last.ret = PyFalse

\* C9: with use_cache and without skip_create, a create whose probe finds the
\* resource active returns True, sets resource_created True and does not
\* invoke the create primitive.
C9_CreateOnExisting ==
    (/\ last.op = "create" /\ ~skip_create /\ use_cache
     /\ Called(last, "_read") /\ Result(last, "_read") \notin {None, Raised})
    => /\ last.ret = PyTrue
       /\ resource_created = PyTrue
       /\ ~Called(last, "_create")

C9_Witness ==
    /\ last.op = "create" /\ ~skip_create /\ use_cache
    /\ last.log = <<Ev("_read", active_resource)>> /\ active_resource \in LiveObjects
    /\ save_output /\ ~output_file
    /\ last.ret = PyTrue /\ resource_created = PyTrue

\* C10: after a delete whose delete primitive returned success,
\* active_resource holds no live object and a following read under use_cache
\* returns absent; after a delete whose primitive failed it still holds the
\* object.  Stated for a kind that supplies its read and delete primitives.
DeleteSucceeded(c) ==
    c.op = "delete" /\ Called(c, "_delete") /\ Result(c, "_delete") = PyTrue

DeleteFailed(c) ==
    c.op = "delete" /\ Called(c, "_delete") /\ Result(c, "_delete") = PyFalse

C10_DeleteMovesToAbsent ==
    [][(IsCall /\ {"_read", "_delete"} \subseteq supplied)
       => /\ DeleteSucceeded(last') => active_resource' = None
          /\ (DeleteSucceeded(last) /\ last'.op = "read" /\ use_cache /\ Returned(last'))
             => last'.ret = None
          /\ DeleteFailed(last') => active_resource' # None]_vars

\* C11 as stated: the keys of get_k8s_manifest_dict() are among the names of
\* the base list and fields_for_k8s_manifest, no key is the wire name of a
\* field that holds its default, every field that does not hold its default
\* and is named in those lists is there, the keys come in base-then-specialized
\* order, and the call leaves the flags and the lifecycle state alone.
ManifestKeys(m) == {m[i].key : i \in 1..Len(m)}
FirstIndex(q, x) == CHOOSE i \in 1..Len(q) : q[i] = x /\ \A j \in 1..(i - 1) : q[j] # x
HoldsDefault(f) == f \notin RequiredFields /\ field_value[f] = 0
ManifestListed == Range(fields_for_k8s_manifest_base) \cup Range(fields_for_k8s_manifest)

\* keys within the lists, none of a field at its default, in list order, each
\* with the value of its field
ManifestSound(m) ==
    LET names == fields_for_k8s_manifest_base \o fields_for_k8s_manifest
    IN /\ ManifestKeys(m) \subseteq Range(names)
       /\ \A f \in Range(FieldNames) : HoldsDefault(f) => alias(f) \notin ManifestKeys(m)
       /\ \A i \in 1..Len(m) :
             \E f \in Range(FieldNames) : alias(f) = m[i].key /\ m[i].value = field_value[f]
       /\ \A i, j \in 1..Len(m) :
             i < j => FirstIndex(names, m[i].key) < FirstIndex(names, m[j].key)

C11_ManifestProjection_AsStated ==
    [][manifest_done'
       => /\ ManifestSound(k8s_manifest)'
          /\ \A f \in Range(FieldNames) :
                (~HoldsDefault(f) /\ (f \in ManifestListed \/ alias(f) \in ManifestListed))
                => alias(f) \in ManifestKeys(k8s_manifest')
          /\ ~manifest_done => UNCHANGED <<config, lifecycle>>]_vars

\* C11 amended: the same, with "every field that does not hold its default and
\* whose wire name (its alias, or its own name when it has none) is named in
\* those lists is there".
C11_ManifestProjection ==
    [][manifest_done'
       => /\ ManifestSound(k8s_manifest)'
          /\ \A f \in Range(FieldNames) :
                (~HoldsDefault(f) /\ alias(f) \in ManifestListed)
                => alias(f) \in ManifestKeys(k8s_manifest')
          /\ ~manifest_done => UNCHANGED <<config, lifecycle>>]_vars

\* a listed field at its default left out, a listed one kept under its wire
\* name, an unlisted non-default one left out, on an instance that was probed
C11_Witness ==
    /\ manifest_done
    /\ fields_for_k8s_manifest = <<"replicas", "serviceAccountName">>
    /\ field_value["replicas"] = 0 /\ field_value["service_account_name"] = 1
    /\ field_value["pretty"] = 1
    /\ [i \in 1..Len(k8s_manifest) |-> k8s_manifest[i].key]
          = <<"apiVersion", "kind", "metadata", "serviceAccountName">>
    /\ active_resource \in LiveObjects

\* C12 as stated: with save_output, every create or update that returns
\* True other than by its skip flag has written the manifest file (on a kind
\* that supplies its primitives), every delete whose primitive succeeded has
\* removed it, and without save_output no call writes or removes the file.
PrimitiveSucceeded(c) ==
    \/ c.op = "create" /\ Result(c, "_create") = PyTrue
    \/ c.op = "update" /\ Result(c, "_update") = PyTrue

FileUntouched(c) == \A i \in 1..Len(c.log) : c.log[i].call \notin FileActions

C12_ManifestFile_AsStated ==
    [][IsCall
       => /\ (/\ save_output /\ last'.op \in {"create", "update"} /\ ~SkipFlag(last'.op)
              /\ last'.ret = PyTrue
              /\ supplied = {"_read", "_create", "_update", "_delete"})
             => (Called(last', "save_output_file") /\ output_file')
          /\ (save_output /\ DeleteSucceeded(last'))
             => (Called(last', "delete_output_file") /\ ~output_file')
          /\ ~save_output => (FileUntouched(last') /\ UNCHANGED output_file)]_vars

\* C12 amended: with save_output, every create or update whose kind-specific
\* primitive was invoked and succeeded has written the manifest file, every
\* delete whose primitive succeeded has removed it, and without save_output
\* no call writes or removes the file.
C12_ManifestFile ==
    [][IsCall
       => /\ (save_output /\ PrimitiveSucceeded(last'))
             => (Called(last', "save_output_file") /\ output_file')
          /\ (save_output /\ DeleteSucceeded(last'))
             => (Called(last', "delete_output_file") /\ ~output_file')
          /\ ~save_output => (FileUntouched(last') /\ UNCHANGED output_file)]_vars

\* an update that wrote the file again after a delete had removed it
C12_Witness ==
    /\ save_output /\ last.op = "update" /\ Result(last, "_update") = PyTrue
    /\ Called(last, "save_output_file") /\ output_file
    /\ resource_deleted = PyTrue /\ resource_created = PyTrue

\* C13: when the probe or the kind-specific primitive inside a create, update
\* or delete fails (it reports failure, or the transport call raises), the
\* operation returns False: the failure does not leave the operation as an
\* exception and is not turned into True.
FailedCall(e) == e.call \in {"_read"} \cup Primitives /\ e.result \in {PyFalse, Raised}

C13_FailuresAreBoolean ==
    (last.op \in {"create", "update", "delete"}
     /\ \E i \in 1..Len(last.log) : FailedCall(last.log[i]))
    => last.ret = PyFalse

\* C14 as stated: every create without skip_create probes through is_active
\* before anything else, under use_cache and without it.
C14_CreateProbesFirst_AsStated ==
    (last.op = "create" /\ ~skip_create)
    => (Len(last.log) >= 1 /\ last.log[1].call = "_read")

\* C14 amended: a create without skip_create and with use_cache probes through
\* is_active (which updates active_resource) before the create primitive can
\* be invoked; without use_cache it does not probe and goes to the create
\* primitive at once.
C14_CreateProbesFirst ==
    (last.op = "create" /\ ~skip_create)
    => IF use_cache
       THEN /\ Len(last.log) >= 1 /\ last.log[1].call = "_read"
            /\ Count(last, "_read") = 1
            /\ Returned(last) => active_resource = last.log[1].result
       ELSE /\ ~Called(last, "_read")
            /\ Len(last.log) >= 1 /\ last.log[1].call = "_create"

\* probe, found absent, then the create primitive
C14_Witness ==
    /\ last.op = "create" /\ ~skip_create /\ use_cache
    /\ Len(last.log) = 3
    /\ last.log[1] = Ev("_read", None) /\ last.log[2] = Ev("_create", PyTrue)
    /\ active_resource = None /\ remote \in LiveObjects

\* C15: a call changes no result flag but its own: create leaves
\* resource_updated and resource_deleted as they were, update leaves
\* resource_created and resource_deleted, delete leaves resource_created and
\* resource_updated, and read and is_active leave all three.
C15_FlagsOwnedByOperation ==
    [][IsCall
       => /\ last'.op # "create" => UNCHANGED resource_created
          /\ last'.op # "update" => UNCHANGED resource_updated
          /\ last'.op # "delete" => UNCHANGED resource_deleted]_vars

\* a create that set its flag while the other two keep what update and delete
\* left in them
C15_Witness ==
    /\ last.op = "create" /\ Result(last, "_create") = PyTrue
    /\ resource_created = PyTrue
    /\ resource_updated = PyFalse /\ resource_deleted = PyTrue

\* C16: in create, update and delete, after the kind-specific primitive
\* succeeded the file action (under save_output) comes right before the post
\* hook, the hook is called exactly once, last, and its result is what the
\* operation returns, also when it is False while the result flag is True;
\* when the primitive was not invoked or did not succeed the hook is not
\* called.
PrimitiveOf(op) ==
    CASE op = "create" -> "_create" [] op = "update" -> "_update" [] op = "delete" -> "_delete"
HookOf(op) ==
    CASE op = "create" -> "post_create" [] op = "update" -> "post_update"
      [] op = "delete" -> "post_delete"
FileActionOf(op) == IF op = "delete" THEN "delete_output_file" ELSE "save_output_file"

C16_PostHook ==
    \A op \in {"create", "update", "delete"} :
        last.op = op
        => LET n == Len(last.log)
           IN IF Result(last, PrimitiveOf(op)) = PyTrue
              THEN /\ Count(last, HookOf(op)) = 1
                   /\ last.log[n].call = HookOf(op)
                   /\ last.ret = last.log[n].result
                   /\ last.flag = PyTrue
                   /\ IF save_output
                      THEN /\ Count(last, FileActionOf(op)) = 1
                           /\ last.log[n - 1].call = FileActionOf(op)
                           /\ last.log[n - 2].call = PrimitiveOf(op)
                      ELSE /\ FileUntouched(last)
                           /\ last.log[n - 1].call = PrimitiveOf(op)
              ELSE \A i \in 1..n : last.log[i].call \notin Hooks

\* a delete that removed the file, then ran a hook that returned False
C16_Witness ==
    /\ last.op = "delete" /\ save_output
    /\ Len(last.log) = 4
    /\ last.log[2] = Ev("_delete", PyTrue)
    /\ last.log[3].call = "delete_output_file"
    /\ last.log[4] = Ev("post_delete", PyFalse)
    /\ last.ret = PyFalse /\ resource_deleted = PyTrue

\* C17: one create, update or delete call probes at most once and invokes its
\* primitive at most once, also when the primitive fails; one read or
\* is_active call invokes the read primitive at most once; a call makes at
\* most four calls in all, and returns when none of them raises.
C17_NoRetries ==
    last.op # "none"
    => /\ Count(last, "_read") <= 1
       /\ \A prim \in Primitives :
             Count(last, prim) <= (IF last.op \in {"create", "update", "delete"}
                                      /\ prim = PrimitiveOf(last.op) THEN 1 ELSE 0)
       /\ Len(last.log) <= 4
       /\ (\A i \in 1..Len(last.log) : last.log[i].result # Raised) => Returned(last)

\* an update whose primitive failed: one probe, one attempt, False
C17_Witness ==
    /\ last.op = "update"
    /\ Len(last.log) = 2
    /\ last.log[1].call = "_read" /\ last.log[1].result \in LiveObjects
    /\ last.log[2] = Ev("_update", PyFalse)
    /\ last.ret = PyFalse /\ resource_updated = PyFalse

\* C18: a read that does not answer from the cache (use_cache false, or
\* active_resource None) returns True without invoking the read primitive
\* when skip_read is set, and otherwise returns just what the read primitive
\* returned, None included.
C18_SkipRead ==
    (last.op = "read" /\ ~(use_cache /\ active_resource # None))
    => IF skip_read
       THEN last.ret = PyTrue /\ last.log = <<>>
       ELSE last.log = <<Ev("_read", last.ret)>>

\* absent handed back as the value of read, nothing cached
C18_Witness ==
    /\ last.op = "read" /\ ~skip_read /\ use_cache
    /\ active_resource = None
    /\ last.log = <<Ev("_read", None)>> /\ last.ret = None
    /\ "_read" \in supplied

\* C19: active_resource is None until the first is_active probe and from then
\* on the result of the latest one: a step changes it only if it is a call of
\* is_active, or of create, update or delete probing through is_active, whose
\* probe returned, and then to that result; read does not write it, nor does
\* what the create or delete primitive did, nor a change on the cluster.
ProbedThroughIsActive(c) ==
    /\ c.op \in {"is_active", "create", "update", "delete"}
    /\ Called(c, "_read") /\ Result(c, "_read") # Raised

C19_CacheIsLastProbe ==
    [][/\ last.op = "none" => active_resource = None
       /\ IF IsCall /\ ProbedThroughIsActive(last')
          THEN active_resource' = Result(last', "_read")
          ELSE UNCHANGED active_resource]_vars

\* after a successful delete the cache still holds the object the probe found
C19_Witness ==
    /\ last.op = "delete" /\ Result(last, "_delete") = PyTrue
    /\ "_delete" \in supplied
    /\ active_resource \in LiveObjects /\ active_resource = Result(last, "_read")
    /\ remote = None

====
